---------------------------- MODULE Spec2Model ----------------------------
(***************************************************************************)
(* Model of instagram_private_api's cookie jar (cookiejar.py) and          *)
(* multipart encoder (http.py).                                            *)
(*                                                                         *)
(* Representation of Python values:                                        *)
(*   - a str is a TLA+ string;                                             *)
(*   - a dict is the sequence of its <<key, value>> items in insertion     *)
(*     order (Python dicts iterate in insertion order), keys unique;       *)
(*   - an attribute that is "x or None" is <<>> for None and <<x>> for x;  *)
(*   - a Cookie object is a record (getattr(cookie, a) is cookie[a]), its  *)
(*     _rest attribute being the field "rest".                             *)
(***************************************************************************)
EXTENDS Integers, Sequences, FiniteSets, TLC

VARIABLES cookies, format, last

vars == <<cookies, format, last>>

(***************************************************************************)
(* Python dict primitives.                                                 *)
(***************************************************************************)
None == <<>>

Some(x) == <<x>>

EmptyDict == <<>>

Keys(d) == {d[i][1] : i \in 1..Len(d)}

Has(d, k) == \E i \in 1..Len(d) : d[i][1] = k

Get(d, k) == d[CHOOSE i \in 1..Len(d) : d[i][1] = k][2]

Put(d, k, v) ==
    IF Has(d, k)
    THEN [i \in 1..Len(d) |-> IF d[i][1] = k THEN <<k, v>> ELSE d[i]]
    ELSE Append(d, <<k, v>>)

RECURSIVE Update(_, _)
Update(d, e) ==
    IF e = <<>> THEN d ELSE Update(Put(d, Head(e)[1], Head(e)[2]), Tail(e))

(***************************************************************************)
(* Cookie record codec.                                                    *)
(***************************************************************************)
NoError == "ok"

MalformedCookieError == "TypeError: Cookie dictionary must contain name and value"

UnexpectedKeyError == "TypeError: Unexpected keys in Cookie dictionary"

InvalidDictionaryError == "TypeError: No Cookies found in dictionary"

_cookie_attrs ==
    << <<"version", 0>>, <<"name", "">>, <<"value", "">>,
       <<"port", None>>, <<"domain", "">>, <<"path", "/">>,
       <<"secure", FALSE>>, <<"expires", None>>, <<"discard", TRUE>>,
       <<"comment", None>>, <<"comment_url", None>>,
       <<"rfc2109", FALSE>> >>

\* bool(c['port']): None and the empty string are false
PortSpecified(kw) == Get(kw, "port") # None /\ Get(kw, "port") # Some("")

\* bool(c['domain'])
DomainSpecified(kw) == Get(kw, "domain") # ""

\* c['domain'].startswith('.'), over the domain strings of the model
DomainInitialDot(kw) == Get(kw, "domain") \in {".d2"}

\* bool(c['path'])
PathSpecified(kw) == Get(kw, "path") # ""

_bool_attrs(kw) ==
    LET k1 == Put(kw, "port_specified", PortSpecified(kw))
        k2 == Put(k1, "domain_specified", DomainSpecified(k1))
        k3 == Put(k2, "domain_initial_dot", DomainInitialDot(k2))
    IN  Put(k3, "path_specified", PathSpecified(k3))

\* compat_cookiejar.Cookie(**kwargs): an object with one attribute per argument
Cookie(kw) == [a \in Keys(kw) |-> Get(kw, a)]

cookie_to_dict(cookie) ==
    LET NotDefault(p) == cookie[p[1]] # p[2]
        kept == SelectSeq(_cookie_attrs, NotDefault)
        dct  == [i \in 1..Len(kept) |-> <<kept[i][1], cookie[kept[i][1]]>>]
    IN  IF cookie.rest # EmptyDict THEN Append(dct, <<"rest", cookie.rest>>)
        ELSE dct

\* cookie_from_dict with the unexpected-key check made after the derived
\* booleans are added to the known keys
cookie_from_dict_lenient(dct) ==
    IF ~Has(dct, "name") \/ ~Has(dct, "value")
    THEN [err |-> MalformedCookieError, cookie |-> None]
    ELSE LET cookie_kwargs == Put(_cookie_attrs, "rest", EmptyDict)
             extra_args    == Keys(dct) \ Keys(_bool_attrs(cookie_kwargs))
         IN  IF extra_args # {}
             THEN [err |-> UnexpectedKeyError, cookie |-> None]
             ELSE [err |-> NoError,
                   cookie |-> Cookie(_bool_attrs(Update(cookie_kwargs, dct)))]

cookie_from_dict(dct) ==
    IF ~Has(dct, "name") \/ ~Has(dct, "value")
    THEN [err |-> MalformedCookieError, cookie |-> None]
    ELSE LET cookie_kwargs == Put(_cookie_attrs, "rest", EmptyDict)
             extra_args    == Keys(dct) \ Keys(cookie_kwargs)
         IN  IF extra_args # {}
             THEN [err |-> UnexpectedKeyError, cookie |-> None]
             ELSE [err |-> NoError,
                   cookie |-> Cookie(_bool_attrs(Update(cookie_kwargs, dct)))]


(***************************************************************************)
(* Cookie store: _cookies is a dict domain -> path -> name -> Cookie.      *)
(***************************************************************************)
\* CookieJar.set_cookie: c[domain][path][name] = cookie, creating the levels
set_cookie(c, cookie) ==
    LET c1 == IF Has(c, cookie.domain) THEN c ELSE Put(c, cookie.domain, EmptyDict)
        c2 == Get(c1, cookie.domain)
        c3 == IF Has(c2, cookie.path) THEN c2 ELSE Put(c2, cookie.path, EmptyDict)
    IN  Put(c1, cookie.domain,
            Put(c3, cookie.path, Put(Get(c3, cookie.path), cookie.name, cookie)))

RECURSIVE Values(_)
\* the values of a dict, in order
Values(d) == IF d = <<>> THEN <<>> ELSE <<Head(d)[2]>> \o Values(Tail(d))

RECURSIVE Concat(_)
Concat(ss) == IF ss = <<>> THEN <<>> ELSE Head(ss) \o Concat(Tail(ss))

\* "for cookie in self": CookieJar.__iter__ walks domain, path, name in order
deepvalues(c) ==
    Concat([i \in 1..Len(c) |->
              Concat([j \in 1..Len(c[i][2]) |-> Values(c[i][2][j][2])])])

existing_names(c) == {deepvalues(c)[i].name : i \in 1..Len(deepvalues(c))}

RECURSIVE set_cookies_from_dict(_, _, _, _, _)
RECURSIVE ImportLoop(_, _, _, _, _, _, _)
\* one pass of the body of "for key in cookie_dict", for entry i; the nested
\* calls pass neither overwrite (so it is True) nor the key as domain
ImportEntry(c, cookie_dict, i, overwrite, domain, path, names) ==
    LET key   == cookie_dict[i][1]
        child == cookie_dict[i][2]
    IN  IF ~Has(child, "name")
        THEN IF domain # None
             THEN IF path # None
                  THEN [cookies |-> c, err |-> InvalidDictionaryError]
                  ELSE set_cookies_from_dict(c, child, TRUE, domain, Some(key))
             ELSE set_cookies_from_dict(c, child, TRUE, domain, None)
        ELSE IF overwrite \/ key \notin names
             THEN LET made == cookie_from_dict(child)
                  IN  IF made.err # NoError
                      THEN [cookies |-> c, err |-> made.err]
                      ELSE [cookies |-> set_cookie(c, made.cookie),
                            err |-> NoError]
             ELSE [cookies |-> c, err |-> NoError]

\* the loop going on to the next entries after an entry raised
ImportLoopContinue(c, cookie_dict, i, overwrite, domain, path, names) ==
    IF i > Len(cookie_dict) THEN [cookies |-> c, err |-> NoError]
    ELSE LET r == ImportEntry(c, cookie_dict, i, overwrite, domain, path, names)
             rest == ImportLoop(r.cookies, cookie_dict, i + 1, overwrite, domain,
                                path, names)
         IN  IF r.err # NoError THEN [cookies |-> rest.cookies, err |-> r.err]
             ELSE rest

\* the loop "for key in cookie_dict" from entry i on; an exception ends it
ImportLoop(c, cookie_dict, i, overwrite, domain, path, names) ==
    IF i > Len(cookie_dict) THEN [cookies |-> c, err |-> NoError]
    ELSE LET r == ImportEntry(c, cookie_dict, i, overwrite, domain, path, names)
         IN  IF r.err # NoError THEN r
             ELSE ImportLoop(r.cookies, cookie_dict, i + 1, overwrite, domain,
                             path, names)

set_cookies_from_dict(c, cookie_dict, overwrite, domain, path) ==
    IF cookie_dict = EmptyDict THEN [cookies |-> c, err |-> NoError]
    ELSE ImportLoop(c, cookie_dict, 1, overwrite, domain, path, existing_names(c))

\* min([cookie.expires for cookie in self], default=None): comparing None with
\* anything raises TypeError, which min does as soon as it compares two items
expires_earliest(c) ==
    LET xs == [i \in 1..Len(deepvalues(c)) |-> deepvalues(c)[i].expires]
    IN  IF Len(xs) = 0 THEN [err |-> NoError, result |-> None]
        ELSE IF Len(xs) = 1 THEN [err |-> NoError, result |-> xs[1]]
        ELSE IF \E i \in 1..Len(xs) : xs[i] = None
             THEN [err |-> "TypeError: '<' not supported", result |-> None]
             ELSE [err |-> NoError,
                   result |-> Some(CHOOSE m \in {xs[i][1] : i \in 1..Len(xs)} :
                                     \A i \in 1..Len(xs) : m <= xs[i][1])]

(***************************************************************************)
(* to_dict.  "target" names the dict that cookies are written to: the      *)
(* result itself, the dict stored under a domain key of the result, or a   *)
(* dict the result does not hold.  "target = target[path] = {}" assigns    *)
(* left to right: target becomes the fresh dict, and the fresh dict is     *)
(* then stored under path in target, that is, in itself.                   *)
(***************************************************************************)
TargetStore(s, name, v) ==
    IF s.target.at = "root"
    THEN [s EXCEPT !.cookie_dict = Put(s.cookie_dict, name, v)]
    ELSE IF s.target.at = "domain"
    THEN [s EXCEPT !.cookie_dict =
             Put(s.cookie_dict, s.target.key,
                 Put(Get(s.cookie_dict, s.target.key), name, v))]
    ELSE s

RECURSIVE ToDictNames(_, _, _)
ToDictNames(s, by_name, k) ==
    IF k > Len(by_name) THEN s
    ELSE ToDictNames(TargetStore(s, by_name[k][1], cookie_to_dict(by_name[k][2])),
                     by_name, k + 1)

NestPath(s, path) == [s EXCEPT !.target = [at |-> "detached", key |-> path]]

RECURSIVE ToDictPaths(_, _, _, _)
ToDictPaths(s, by_path, j, nest_path) ==
    IF j > Len(by_path) THEN s
    ELSE LET s1 == IF nest_path THEN NestPath(s, by_path[j][1]) ELSE s
         IN  ToDictPaths(ToDictNames(s1, by_path[j][2], 1), by_path, j + 1, nest_path)

NestDomain(s, domain) ==
    [cookie_dict |-> Put(s.cookie_dict, domain, EmptyDict),
     target |-> [at |-> "domain", key |-> domain]]

RECURSIVE ToDictDomains(_, _, _, _, _)
ToDictDomains(s, c, i, nest_domain, ignore_path) ==
    IF i > Len(c) THEN s
    ELSE LET s1 == IF nest_domain THEN NestDomain(s, c[i][1]) ELSE s
             nest_path == ~ignore_path /\ Len(c[i][2]) > 1
         IN  ToDictDomains(ToDictPaths(s1, c[i][2], 1, nest_path),
                           c, i + 1, nest_domain, ignore_path)

to_dict(c, ignore_domain, ignore_path) ==
    LET nest_domain == ~ignore_domain /\ Len(c) > 1
        start == [cookie_dict |-> EmptyDict, target |-> [at |-> "root", key |-> ""]]
    IN  ToDictDomains(start, c, 1, nest_domain, ignore_path).cookie_dict

\* compat_pickle.dumps / loads of the record table: an opaque blob
compat_pickle_dumps(c) == <<"pickle", c>>

compat_pickle_loads(blob) == blob[2]

\* dump deciding on the store's format alone
dump_store_format(c, fmt, use_format) ==
    IF fmt \in {"dict", "json"}
    THEN [type |-> "dict", value |-> to_dict(c, FALSE, FALSE)]
    ELSE [type |-> "bytes", value |-> compat_pickle_dumps(c)]

dump(c, fmt, use_format) ==
    LET chosen == IF use_format # None /\ use_format # Some("") THEN use_format[1]
                  ELSE fmt
    IN  IF chosen \in {"dict", "json"}
        THEN [type |-> "dict", value |-> to_dict(c, FALSE, FALSE)]
        ELSE [type |-> "bytes", value |-> compat_pickle_dumps(c)]

FormatSetter(fmt, new_format) ==
    IF new_format \in {"dict", "json", "pickle", "str", "bytes"} THEN new_format
    ELSE fmt

(***************************************************************************)
(* Inputs of the store operations.                                         *)
(***************************************************************************)
MaxCookies == 3

CkA1 == << <<"name", "a">>, <<"value", "1">>, <<"domain", "d1">>,
           <<"expires", Some(5)>> >>

CkA1b == << <<"name", "a">>, <<"value", "2">>, <<"domain", "d1">> >>

CkB1p == << <<"name", "b">>, <<"value", "1">>, <<"domain", "d1">>,
            <<"path", "/p">>, <<"expires", Some(3)>> >>

CkA2 == << <<"name", "a">>, <<"value", "1">>, <<"domain", ".d2">> >>

CkC1 == << <<"name", "c">>, <<"value", "1">>, <<"domain", "d1">> >>

\* a cookie mapping without "value", and one with a key that is no attribute
CkNoValue == << <<"name", "b">>, <<"domain", "d1">> >>

CkBogus == << <<"name", "b">>, <<"value", "1">>, <<"bogus", "1">> >>

CookieDicts == <<CkA1, CkA1b, CkB1p, CkA2>>

Mappings ==
    << EmptyDict,
       << <<"a", CkA1>>, <<"b", CkB1p>> >>,
       << <<"d1", << <<"a", CkA1b>> >> >>, <<".d2", << <<"a", CkA2>> >> >> >>,
       << <<"d1", << <<"/", << <<"a", CkA1>> >> >>,
                     <<"/p", << <<"b", CkB1p>> >> >> >> >> >>,
       << <<"d1", << <<"/", << <<"x", << <<"a", CkA1b>> >> >> >> >> >> >> >>,
       << <<"d1", << <<"/", << <<"x", EmptyDict>> >> >> >> >> >>,
       << <<"a", CkA1b>>, <<"b", CkNoValue>>, <<"c", CkC1>> >>,
       << <<"d1", << <<"a", CkA1>> >> >>,
          <<".d2", << <<"b", CkBogus>>, <<"a", CkA2>> >> >> >>,
       << <<"d1", << <<"a", CkA1>>, <<"a2", CkA1b>> >> >>,
          <<"b", CkNoValue>> >> >>

FormatArgs == {"dict", "json", "pickle", "str", "bytes", "xml"}

UseFormats == {None, Some("")} \cup {Some(f) : f \in FormatArgs}

NumCookies(c) == Len(deepvalues(c))

(***************************************************************************)
(* The store as a state machine: one action per public operation.          *)
(***************************************************************************)
Init ==
    /\ cookies = EmptyDict
    /\ format = "pickle"
    /\ last = [op |-> "init"]

\* ClientCookieJar(): no cookie_repr
ConstructEmpty ==
    /\ cookies' = EmptyDict
    /\ format' = "pickle"
    /\ last' = [op |-> "construct", err |-> NoError]

\* ClientCookieJar(cookie_repr) with a dict; a raising constructor builds no jar
ConstructFromDict ==
    \E m \in 1..Len(Mappings) :
      LET r == set_cookies_from_dict(EmptyDict, Mappings[m], TRUE, None, None)
      IN  /\ cookies' = IF r.err = NoError THEN r.cookies ELSE cookies
          /\ format' = IF r.err = NoError THEN "dict" ELSE format
          /\ last' = [op |-> "construct", err |-> r.err]

\* ClientCookieJar(cookie_repr) with the blob an earlier dump returned
ConstructFromBlob ==
    /\ last.op = "dump"
    /\ last.result.type = "bytes"
    /\ cookies' = compat_pickle_loads(last.result.value)
    /\ format' = "pickle"
    /\ last' = [op |-> "construct", err |-> NoError]

SetFormat ==
    \E f \in FormatArgs :
      /\ format' = FormatSetter(format, f)
      /\ last' = [op |-> "set_format", new_format |-> f, before |-> format]
      /\ UNCHANGED cookies

SetCookie ==
    \E k \in 1..Len(CookieDicts) :
      LET made == cookie_from_dict(CookieDicts[k])
          c    == set_cookie(cookies, made.cookie)
      IN  /\ NumCookies(c) <= MaxCookies
          /\ cookies' = c
          /\ last' = [op |-> "set_cookie"]
          /\ UNCHANGED format

Import ==
    \E m \in 1..Len(Mappings), overwrite \in BOOLEAN :
      LET r == set_cookies_from_dict(cookies, Mappings[m], overwrite, None, None)
      IN  /\ NumCookies(r.cookies) <= MaxCookies
          /\ cookies' = r.cookies
          /\ last' = [op |-> "import", mapping |-> m, overwrite |-> overwrite,
                      before |-> cookies, err |-> r.err]
          /\ UNCHANGED format

ToDict ==
    \E ignore_domain \in BOOLEAN, ignore_path \in BOOLEAN :
      /\ last' = [op |-> "to_dict", ignore_domain |-> ignore_domain,
                  ignore_path |-> ignore_path,
                  result |-> to_dict(cookies, ignore_domain, ignore_path)]
      /\ UNCHANGED <<cookies, format>>

Dump ==
    \E use_format \in UseFormats :
      /\ last' = [op |-> "dump", use_format |-> use_format,
                  result |-> dump(cookies, format, use_format)]
      /\ UNCHANGED <<cookies, format>>

ExpiresEarliest ==
    /\ last' = [op |-> "expires_earliest", result |-> expires_earliest(cookies)]
    /\ UNCHANGED <<cookies, format>>

Next ==
    \/ ConstructEmpty
    \/ ConstructFromDict
    \/ ConstructFromBlob
    \/ SetFormat
    \/ SetCookie
    \/ Import
    \/ ToDict
    \/ Dump
    \/ ExpiresEarliest

Spec == Init /\ [][Next]_vars

(***************************************************************************)
(* The record codec on its own: cookie_from_dict on mappings with any      *)
(* subset of the sample keys, and cookie_to_dict followed by               *)
(* cookie_from_dict on cookie objects.  The initial state holds the call's *)
(* argument, the action makes the call.                                    *)
(***************************************************************************)
HttpOnly == << <<"HttpOnly", "">> >>

SamplePairs ==
    << <<"name", "a">>, <<"value", "1">>, <<"domain", ".d2">>, <<"path", "">>,
       <<"port", Some("80")>>, <<"expires", Some(5)>>, <<"rest", HttpOnly>>,
       <<"bogus", "1">>, <<"domain_specified", TRUE>> >>

MappingWithKeys(S) ==
    LET Chosen(p) == p[1] \in S IN SelectSeq(SamplePairs, Chosen)

\* a cookie object as http.cookiejar builds it from the attributes in a: the
\* derived booleans follow from port, domain and path
CookieObject(a) ==
    [version |-> a.version, name |-> a.name, value |-> a.value,
     port |-> a.port, port_specified |-> a.port # None /\ a.port # Some(""),
     domain |-> a.domain, domain_specified |-> a.domain # "",
     domain_initial_dot |-> a.domain \in {".d2"},
     path |-> a.path, path_specified |-> a.path # "",
     secure |-> a.secure, expires |-> a.expires, discard |-> a.discard,
     comment |-> a.comment, comment_url |-> None, rest |-> a.rest,
     rfc2109 |-> FALSE]

\* the call to make: a mapping for cookie_from_dict, or a cookie object for
\* cookie_to_dict followed by cookie_from_dict
InitCodec ==
    /\ cookies = EmptyDict
    /\ format = "pickle"
    /\ \/ \E S \in SUBSET Keys(SamplePairs) :
            last = [op |-> "call_cookie_from_dict", dct |-> MappingWithKeys(S)]
       \/ \E version \in {0, 1}, name \in {"", "a"}, value \in {"", "1"},
             port \in {None, Some("80")}, domain \in {"", "d1", ".d2"},
             path \in {"/", "", "/p"}, secure \in BOOLEAN,
             expires \in {None, Some(5)}, discard \in BOOLEAN,
             comment \in {None, Some("c")}, rest \in {EmptyDict, HttpOnly} :
            last = [op |-> "call_round_trip",
                    cookie |-> CookieObject(
                        [version |-> version, name |-> name, value |-> value,
                         port |-> port, domain |-> domain, path |-> path,
                         secure |-> secure, expires |-> expires,
                         discard |-> discard, comment |-> comment,
                         rest |-> rest])]

CookieFromDict ==
    /\ last.op = "call_cookie_from_dict"
    /\ last' = [op |-> "cookie_from_dict", dct |-> last.dct,
                result |-> cookie_from_dict(last.dct)]
    /\ UNCHANGED <<cookies, format>>

RoundTrip ==
    /\ last.op = "call_round_trip"
    /\ last' = [op |-> "round_trip", cookie |-> last.cookie,
                dct |-> cookie_to_dict(last.cookie),
                result |-> cookie_from_dict(cookie_to_dict(last.cookie))]
    /\ UNCHANGED <<cookies, format>>

NextCodec ==
    \/ CookieFromDict
    \/ RoundTrip

SpecCodec == InitCodec /\ [][NextCodec]_vars

(***************************************************************************)
(* Multipart encoder (http.py).  Here a str is the sequence of its         *)
(* characters and a bytes object the sequence of its bytes; a fixed piece  *)
(* of a format string is kept as one element.  A value carries its Python  *)
(* type: [type |-> "str" | "bytes" | "int", v |-> ...].                     *)
(***************************************************************************)
StrValue(chars) == [type |-> "str", v |-> chars]

BytesValue(bytes) == [type |-> "bytes", v |-> bytes]

IntValue(n) == [type |-> "int", v |-> n]

CRLF == <<"CR", "LF">>

\* codecs.getencoder('utf-8'): (the encoded bytes, the number of characters)
CharBytes(ch) == IF ch = "e-acute" THEN <<"0xC3", "0xA9">> ELSE <<ch>>

Utf8Encode(chars) == Concat([i \in 1..Len(chars) |-> CharBytes(chars[i])])

encoder(chars) == <<Utf8Encode(chars), Len(chars)>>

RECURSIVE Utf8Decode(_)
\* bytes.decode('utf-8') of well-formed input
Utf8Decode(bytes) ==
    IF bytes = <<>> THEN <<>>
    ELSE IF Head(bytes) = "0xC3"
         THEN <<"e-acute">> \o Utf8Decode(Tail(Tail(bytes)))
         ELSE <<Head(bytes)>> \o Utf8Decode(Tail(bytes))

\* u(s) on Python 3: bytes are decoded, anything else is returned as it is
u(s) == IF s.type = "bytes" THEN StrValue(Utf8Decode(s.v)) ELSE s

RECURSIVE IntToStr(_)
\* str(value) of a non-negative int
IntToStr(n) ==
    LET digit == <<"0", "1", "2", "3", "4", "5", "6", "7", "8", "9">>[(n % 10) + 1]
    IN  IF n < 10 THEN <<digit>> ELSE IntToStr(n \div 10) \o <<digit>>

\* mimetypes.guess_type(filename)[0], over the file names of the model
guess_type(filename) ==
    IF filename # <<>> /\ filename[Len(filename)] = ".png"
    THEN Some(<<"image/png">>) ELSE None

\* __init__: self.boundary = boundary or uuid.uuid4().hex
BoundaryOf(boundary, uuid4hex) ==
    IF boundary # None /\ boundary # Some(<<>>) THEN boundary[1] ELSE uuid4hex

ContentTypeHeader(boundary) == <<"multipart/form-data; boundary=">> \o boundary

FieldChunks(boundary, field) ==
    LET key == u(field[1]).v
        value == IF field[2].type = "int" THEN StrValue(IntToStr(field[2].v))
                 ELSE field[2]
    IN  << encoder(<<"-", "-">> \o boundary \o CRLF),
           encoder(<<"Content-Disposition: form-data; name=\"">> \o key
                   \o <<"\"">> \o CRLF),
           encoder(CRLF),
           encoder(u(value).v),
           encoder(CRLF) >>

FileChunks(boundary, file) ==
    LET key == u(file[1]).v
        filename == u(file[2]).v
        contenttype ==
            IF file[3] # None /\ file[3] # Some(<<>>) THEN file[3][1]
            ELSE IF guess_type(filename) # None THEN guess_type(filename)[1]
            ELSE <<"application/octet-stream">>
    IN  << encoder(<<"-", "-">> \o boundary \o CRLF),
           encoder(<<"Content-Disposition: form-data; name=\"">> \o key
                   \o <<"\"; filename=\"">> \o filename \o <<"\"">> \o CRLF),
           encoder(<<"Content-Type: ">> \o contenttype \o CRLF),
           encoder(<<"Content-Transfer-Encoding: binary">> \o CRLF),
           encoder(CRLF),
           <<file[4], Len(file[4])>>,
           encoder(CRLF) >>

\* the generator yielding the parts of the files before those of the fields
iter_files_first(boundary, fields, files) ==
    Concat([j \in 1..Len(files) |-> FileChunks(boundary, files[j])])
    \o Concat([i \in 1..Len(fields) |-> FieldChunks(boundary, fields[i])])
    \o << encoder(<<"-", "-">> \o boundary \o <<"-", "-">> \o CRLF) >>

\* the chunks the generator yields, in order
iter(boundary, fields, files) ==
    Concat([i \in 1..Len(fields) |-> FieldChunks(boundary, fields[i])])
    \o Concat([j \in 1..Len(files) |-> FileChunks(boundary, files[j])])
    \o << encoder(<<"-", "-">> \o boundary \o <<"-", "-">> \o CRLF) >>

encode(boundary, fields, files) ==
    LET chunks == iter(boundary, fields, files)
    IN  [content_type |-> ContentTypeHeader(boundary),
         body |-> Concat([i \in 1..Len(chunks) |-> chunks[i][1]])]

MaxFields == 2

MaxFiles == 1

FieldOptions ==
    << <<StrValue(<<"a">>), StrValue(<<"x">>)>>,
       <<StrValue(<<"b">>), IntValue(12)>>,
       <<BytesValue(<<"a">>), StrValue(<<"e-acute">>)>>,
       <<StrValue(<<"b">>), StrValue(<<"-", "-", "B", "CR", "LF">>)>>,
       <<StrValue(<<"a">>), BytesValue(<<"0xC3", "0xA9">>)>>,
       <<StrValue(<<"b">>), IntValue(0)>> >>

FileOptions ==
    << <<StrValue(<<"f">>), StrValue(<<"x", ".png">>), None, <<"0xFF">>>>,
       <<StrValue(<<"f">>), StrValue(<<"x", ".zzz">>), None, <<>>>>,
       <<StrValue(<<"g">>), StrValue(<<"x", ".png">>), Some(<<"text/plain">>),
         <<"CR", "LF">>>>,
       <<BytesValue(<<"f">>), BytesValue(<<"x", ".zzz">>), Some(<<>>),
         <<"0xFF">>>> >>

BoundaryArgs == {None, Some(<<>>), Some(<<"B">>)}

Uuid4Hex == <<"9f3c04be">>

Picks(options, max) == UNION {[1..n -> 1..Len(options)] : n \in 0..max}

Picked(options, ix) == [i \in 1..Len(ix) |-> options[ix[i]]]

\* the call to make: encode or iter of an encoder built with a boundary
InitMultipart ==
    /\ cookies = EmptyDict
    /\ format = "pickle"
    /\ \E b \in BoundaryArgs, fx \in Picks(FieldOptions, MaxFields),
          gx \in Picks(FileOptions, MaxFiles), op \in {"call_encode", "call_iter"} :
         last = [op |-> op, boundary |-> BoundaryOf(b, Uuid4Hex),
                 fields |-> Picked(FieldOptions, fx),
                 files |-> Picked(FileOptions, gx)]

Encode ==
    /\ last.op = "call_encode"
    /\ last' = [op |-> "encode", boundary |-> last.boundary,
                fields |-> last.fields, files |-> last.files,
                result |-> encode(last.boundary, last.fields, last.files)]
    /\ UNCHANGED <<cookies, format>>

Iter ==
    /\ last.op = "call_iter"
    /\ last' = [op |-> "iter", boundary |-> last.boundary,
                fields |-> last.fields, files |-> last.files,
                result |-> iter(last.boundary, last.fields, last.files)]
    /\ UNCHANGED <<cookies, format>>

NextMultipart ==
    \/ Encode
    \/ Iter

SpecMultipart == InitMultipart /\ [][NextMultipart]_vars

(***************************************************************************)
(* Claims about the record codec (checked under SpecCodec).                *)
(***************************************************************************)
FixedAttributes ==
    {"version", "name", "value", "port", "domain", "path", "secure",
     "expires", "discard", "comment", "comment_url", "rfc2109"}

\* C5: cookie_from_dict fails with MalformedCookieError for every mapping that
\* lacks "name" or "value", fails with UnexpectedKeyError for every mapping that
\* has both and a key outside the twelve attributes plus "rest" (the derived
\* boolean names included), and returns a record for every other mapping.
C5_FromMappingErrors ==
    last.op = "cookie_from_dict" =>
      LET ks == Keys(last.dct)
          required == "name" \in ks /\ "value" \in ks
          known == ks \subseteq (FixedAttributes \cup {"rest"})
      IN  /\ ~required => last.result.err = MalformedCookieError
          /\ (required /\ ~known) => last.result.err = UnexpectedKeyError
          /\ (required /\ known) =>
                /\ last.result.err = NoError
                /\ \A k \in ks \ {"rest"} :
                     last.result.cookie[k] = Get(last.dct, k)

\* C5 witness: a mapping with name and value whose only unknown key is a
\* derived boolean name was rejected with UnexpectedKeyError
C5_Witness ==
    /\ last.op = "cookie_from_dict"
    /\ Keys(last.dct) \ (FixedAttributes \cup {"rest"}) = {"domain_specified"}
    /\ {"name", "value"} \subseteq Keys(last.dct)
    /\ last.result.err = UnexpectedKeyError

\* C10: for every cookie object with consistent derived booleans, also one
\* whose name or value is the empty string, cookie_from_dict(cookie_to_dict(r))
\* succeeds and yields a record equal to r in every attribute.
C10_RecordRoundTrip ==
    last.op = "round_trip" =>
      /\ last.result.err = NoError
      /\ last.result.cookie = last.cookie

(***************************************************************************)
(* Claims about the store (checked under Spec).                            *)
(***************************************************************************)
StoreRecords(c) == {deepvalues(c)[i] : i \in 1..Len(deepvalues(c))}

RecordsNamed(c, n) == {r \in StoreRecords(c) : r.name = n}

IsCookieMapping(d) == Has(d, "name")

RECURSIVE CookieNamesIn(_)
\* the names of the cookies a mapping holds, at any nesting level
CookieNamesIn(m) ==
    IF m = <<>> THEN {}
    ELSE (IF IsCookieMapping(Head(m)[2]) THEN {Get(Head(m)[2], "name")}
          ELSE CookieNamesIn(Head(m)[2]))
         \cup CookieNamesIn(Tail(m))

RECURSIVE NestingLevels(_)
\* the number of nested levels of children that are no cookie mappings
NestingLevels(m) ==
    IF m = <<>> THEN 0
    ELSE LET here == IF IsCookieMapping(Head(m)[2]) THEN 0
                     ELSE 1 + NestingLevels(Head(m)[2])
             rest == NestingLevels(Tail(m))
         IN  IF here > rest THEN here ELSE rest

RECURSIVE Leaves(_)
\* the number of cookie mappings in a mapping
Leaves(m) ==
    IF m = <<>> THEN 0
    ELSE (IF IsCookieMapping(Head(m)[2]) THEN 1 ELSE Leaves(Head(m)[2]))
         + Leaves(Tail(m))

RECURSIVE Truncated(_, _)
\* the mapping cut after its first k cookie mappings, in iteration order
Truncated(m, k) ==
    IF m = <<>> \/ k = 0 THEN <<>>
    ELSE LET key == Head(m)[1]
             child == Head(m)[2]
         IN  IF IsCookieMapping(child)
             THEN <<Head(m)>> \o Truncated(Tail(m), k - 1)
             ELSE IF Leaves(child) >= k
                  THEN << <<key, Truncated(child, k)>> >>
                  ELSE <<Head(m)>> \o Truncated(Tail(m), k - Leaves(child))

\* C1: importing to_dict's result into an empty store gives an equivalent
\* store (the same (domain, path, name) keys, equal attributes), whatever the
\* ignore_domain / ignore_path flags.
C1_ExportImportRoundTrip ==
    last.op = "to_dict" =>
      LET r == set_cookies_from_dict(EmptyDict, last.result, TRUE, None, None)
      IN  /\ r.err = NoError
          /\ StoreRecords(r.cookies) = StoreRecords(cookies)

\* C2: an import with overwrite=false leaves the store unchanged for every
\* cookie name of the mapping (at any nesting level) that the store already
\* held: the records of that name are the ones it held before.
C2_NoOverwriteKeepsNames ==
    (last.op = "import" /\ ~last.overwrite) =>
      \A n \in CookieNamesIn(Mappings[last.mapping])
                 \cap existing_names(last.before) :
        RecordsNamed(cookies, n) = RecordsNamed(last.before, n)

\* C3: a top-level import fails with InvalidDictionaryError exactly when the
\* mapping has more than two levels of non-cookie nesting.
C3_DepthError ==
    last.op = "import" =>
      (NestingLevels(Mappings[last.mapping]) > 2
         <=> last.err = InvalidDictionaryError)

\* C4: expires_earliest returns, without error, the minimum of the non-null
\* expires values of the store, and None when there is none.
C4_EarliestExpiry ==
    last.op = "expires_earliest" =>
      LET xs == {r.expires[1] : r \in {q \in StoreRecords(cookies) :
                                           q.expires # None}}
      IN  /\ last.result.err = NoError
          /\ IF xs = {} THEN last.result.result = None
             ELSE /\ last.result.result # None
                  /\ last.result.result[1] \in xs
                  /\ \A x \in xs : last.result.result[1] <= x

PathsOf(c, d) == Keys(Get(c, d))

NamesOf(c, d, p) == Keys(Get(Get(c, d), p))

\* C6: to_dict's result has a domain level exactly when ignore_domain is false
\* and the store has more than one domain, has under each domain a path level
\* exactly when ignore_path is false and the domain has more than one path,
\* and maps, at the innermost level, the name of every cookie to
\* cookie_to_dict of a cookie of that name found there.
C6_AdaptiveNesting ==
    last.op = "to_dict" =>
      LET c == cookies
          R == last.result
          DomainLevel == ~last.ignore_domain /\ Cardinality(Keys(c)) > 1
          PathLevel(d) == ~last.ignore_path /\ Cardinality(PathsOf(c, d)) > 1
          UnderDomain(d) == IF DomainLevel THEN Get(R, d) ELSE R
          Innermost(d, p) ==
              IF PathLevel(d) THEN Get(UnderDomain(d), p) ELSE UnderDomain(d)
          KeysUnder(d) ==
              IF PathLevel(d) THEN PathsOf(c, d)
              ELSE UNION {NamesOf(c, d, p) : p \in PathsOf(c, d)}
      IN  /\ IF DomainLevel THEN Keys(R) = Keys(c)
             ELSE Keys(R) = UNION {KeysUnder(d) : d \in Keys(c)}
          /\ \A d \in Keys(c) :
               /\ DomainLevel => Keys(Get(R, d)) = KeysUnder(d)
               /\ \A p \in PathsOf(c, d) :
                    /\ PathLevel(d) => Has(UnderDomain(d), p)
                    /\ \A n \in NamesOf(c, d, p) :
                         /\ Has(Innermost(d, p), n)
                         /\ \E q \in RecordsNamed(c, n) :
                              /\ DomainLevel => q.domain = d
                              /\ PathLevel(d) => q.path = p
                              /\ Get(Innermost(d, p), n) = cookie_to_dict(q)

Formats == {"dict", "json", "pickle", "str", "bytes"}

RECURSIVE CookieEntries(_, _)
\* the cookie mappings of a mapping in iteration order, each with its key and
\* whether it sits at the top level
CookieEntries(m, top) ==
    IF m = <<>> THEN <<>>
    ELSE (IF IsCookieMapping(Head(m)[2])
          THEN << [key |-> Head(m)[1], dct |-> Head(m)[2], top |-> top] >>
          ELSE CookieEntries(Head(m)[2], FALSE))
         \o CookieEntries(Tail(m), top)

ImportOfFirst(k) ==
    set_cookies_from_dict(last.before, Truncated(Mappings[last.mapping], k),
                          last.overwrite, None, None)

SameKey(r, q) == r.domain = q.domain /\ r.path = q.path /\ r.name = q.name

\* C9 as stated: when an import fails on an entry (the first entry it does
\* not skip whose cookie mapping is rejected), the import ends with that
\* entry's error, the cookie of every entry before it is in the store (or the
\* cookie of a later one of them with the same domain, path and name is), and
\* no later entry is committed.
C9_PrecedingCommitted ==
    last.op = "import" =>
      LET E == CookieEntries(Mappings[last.mapping], TRUE)
          Made(j) == cookie_from_dict(E[j].dct)
          Skipped(j) == /\ E[j].top
                        /\ ~last.overwrite
                        /\ E[j].key \in existing_names(last.before)
          Rejected(j) == ~Skipped(j) /\ Made(j).err # NoError
          FirstFailure(k) == Rejected(k) /\ \A j \in 1..(k - 1) : ~Rejected(j)
      IN  \A k \in 1..Len(E) :
             FirstFailure(k) =>
               /\ last.err = Made(k).err
               /\ cookies = ImportOfFirst(k - 1).cookies
               /\ \A j \in 1..(k - 1) :
                    /\ Made(j).err = NoError
                    /\ \/ Made(j).cookie \in StoreRecords(cookies)
                       \/ \E i \in (j + 1)..(k - 1) :
                            /\ Made(i).err = NoError
                            /\ SameKey(Made(i).cookie, Made(j).cookie)

\* C9 amended: when an import fails on an entry, the import ends with that
\* entry's error, the cookies of the entries before it are in the store unless
\* the import skipped the entry (overwrite=false and a top-level key that is
\* the name of a cookie the store held) or a later one of them has the same
\* (domain, path, name), and the store is what importing only those entries
\* gives: no later entry is committed.  Without such an entry the import ends
\* without error.
C9_PartialCommit ==
    last.op = "import" =>
      LET E == CookieEntries(Mappings[last.mapping], TRUE)
          Made(j) == cookie_from_dict(E[j].dct)
          Skipped(j) == /\ E[j].top
                        /\ ~last.overwrite
                        /\ E[j].key \in existing_names(last.before)
          Rejected(j) == ~Skipped(j) /\ Made(j).err # NoError
          FirstFailure(k) == Rejected(k) /\ \A j \in 1..(k - 1) : ~Rejected(j)
      IN  /\ \A k \in 1..Len(E) :
                FirstFailure(k) =>
                  /\ last.err = Made(k).err
                  /\ cookies = ImportOfFirst(k - 1).cookies
                  /\ ImportOfFirst(k - 1).err = NoError
                  /\ \A j \in 1..(k - 1) :
                       ~Skipped(j) =>
                         \/ Made(j).cookie \in StoreRecords(cookies)
                         \/ \E i \in (j + 1)..(k - 1) :
                              ~Skipped(i) /\ SameKey(Made(i).cookie, Made(j).cookie)
          /\ (\A k \in 1..Len(E) : ~Rejected(k)) => last.err = NoError

\* C9 witness: an import failed on its second entry (no "value"), the first
\* entry's cookie is in the store with its new value, the third entry's is not
C9_Witness ==
    /\ last.op = "import"
    /\ last.mapping = 7
    /\ last.err = MalformedCookieError
    /\ cookies # last.before
    /\ \E r \in StoreRecords(cookies) : r.name = "a" /\ r.value = "2"
    /\ "c" \notin existing_names(cookies)

(***************************************************************************)
(* Claims about the multipart encoder (checked under SpecMultipart).       *)
(***************************************************************************)
OpeningLine(boundary) == <<"-", "-">> \o Utf8Encode(boundary) \o CRLF

ClosingLine(boundary) ==
    <<"-", "-">> \o Utf8Encode(boundary) \o <<"-", "-">> \o CRLF

AsBytes(x) == IF x.type = "bytes" THEN x.v ELSE Utf8Encode(x.v)

FieldPayload(field) ==
    IF field[2].type = "int" THEN IntToStr(field[2].v) ELSE AsBytes(field[2])

ExpectedFieldPart(boundary, field) ==
    OpeningLine(boundary)
    \o <<"Content-Disposition: form-data; name=\"">> \o AsBytes(field[1])
    \o <<"\"">> \o CRLF \o CRLF
    \o FieldPayload(field) \o CRLF

ExpectedContentType(file) ==
    IF file[3] \notin {None, Some(<<>>)} THEN file[3][1]
    ELSE IF AsBytes(file[2]) = <<"x", ".png">> THEN <<"image/png">>
    ELSE <<"application/octet-stream">>

ExpectedFilePart(boundary, file) ==
    OpeningLine(boundary)
    \o <<"Content-Disposition: form-data; name=\"">> \o AsBytes(file[1])
    \o <<"\"; filename=\"">> \o AsBytes(file[2]) \o <<"\"">> \o CRLF
    \o <<"Content-Type: ">> \o ExpectedContentType(file) \o CRLF
    \o <<"Content-Transfer-Encoding: binary">> \o CRLF \o CRLF
    \o file[4] \o CRLF

Occurrences(pattern, s) ==
    Cardinality({p \in 1..(Len(s) - Len(pattern) + 1) :
                   SubSeq(s, p, p + Len(pattern) - 1) = pattern})

PayloadsFreeOf(boundary, fields, files) ==
    /\ \A i \in 1..Len(fields) :
         Occurrences(Utf8Encode(boundary), FieldPayload(fields[i])) = 0
    /\ \A j \in 1..Len(files) :
         Occurrences(Utf8Encode(boundary), files[j][4]) = 0

\* C7: the body is the parts of the fields in input order, then the parts of
\* the files in input order, each opened by the line --<boundary> and closed
\* by CRLF after its payload, then the closing line --<boundary>-- and CRLF;
\* so, payloads not holding the boundary, the body has as many opening lines
\* as there are fields and files, and one closing line.
C7_MultipartOrder ==
    last.op = "encode" =>
      LET body == last.result.body
          n == Len(last.fields)
          m == Len(last.files)
          parts == [i \in 1..(n + m) |->
                      IF i <= n THEN ExpectedFieldPart(last.boundary, last.fields[i])
                      ELSE ExpectedFilePart(last.boundary, last.files[i - n])]
      IN  /\ body = Concat(parts) \o ClosingLine(last.boundary)
          /\ PayloadsFreeOf(last.boundary, last.fields, last.files) =>
               /\ Occurrences(OpeningLine(last.boundary), body) = n + m
               /\ Occurrences(ClosingLine(last.boundary), body) = 1

\* C7 witness: a field named a, then a field named b holding a number, then
\* a file were encoded
C7_Witness ==
    /\ last.op = "encode"
    /\ Len(last.fields) = 2
    /\ AsBytes(last.fields[1][1]) = <<"a">>
    /\ AsBytes(last.fields[2][1]) = <<"b">>
    /\ last.fields[2][2].type = "int"
    /\ Len(last.files) = 1
    /\ Len(last.result.body) > 0
=============================================================================
